---------------------------- MODULE Spec2Model ----------------------------
(***************************************************************************)
(* Model of the RPG MCP server: the in-memory game store (GameManager,     *)
(* src/src/gameManager.ts) and the tool handlers that call it               *)
(* (RPGMCPServer, src/src/index.ts).                                        *)
(*                                                                         *)
(* A game state is a JSON-like tree.  Values are tagged records:           *)
(*   [t |-> "undef"]            JavaScript undefined (a missing property)  *)
(*   [t |-> "hole"]             an array position never assigned           *)
(*   [t |-> "null"]             null                                       *)
(*   [t |-> "num",  v |-> n]    a number                                   *)
(*   [t |-> "str",  v |-> s]    a string                                   *)
(*   [t |-> "date", v |-> n]    a Date object holding the clock value n    *)
(*   [t |-> "arr",  v |-> seq, p |-> f]   an array: its elements, and the  *)
(*                              properties set on it that are no index     *)
(*   [t |-> "obj",  v |-> f]    an object: a function from keys to values  *)
(* A path expression is a sequence of one-character strings.               *)
(***************************************************************************)
EXTENDS Integers, Sequences, FiniteSets, TLC

VARIABLES
    games,      \* GameManager.games: gameId -> [state, createdAt, updatedAt]
    clock,      \* the wall clock read by new Date()
    result,     \* what the last tool call returned to its caller
    recorded,   \* per gameId, every history entry pushed so far (history variable)
    original,   \* the document object a caller of createGame holds on to
    aliases,    \* the gameIds whose state is that very object
    pending     \* the tool requests in flight: per slot, where its handler stands

vars == <<games, clock, result, recorded, original, aliases, pending>>

-----------------------------------------------------------------------------
(* Bounds of the model *)

MaxClock == 1
MaxSelects == 1
MaxCycles == 12
MaxPathLen == 3

(* Program constants *)

HistoryLimit == 10

-----------------------------------------------------------------------------
(* JSON values *)

Undef == [t |-> "undef"]
Hole == [t |-> "hole"]
Null == [t |-> "null"]
Num(n) == [t |-> "num", v |-> n]
Str(s) == [t |-> "str", v |-> s]
Date(n) == [t |-> "date", v |-> n]
Bool(b) == [t |-> "bool", v |-> b]
Arr(s) == [t |-> "arr", v |-> s, p |-> <<>>]
Obj(f) == [t |-> "obj", v |-> f]

IsContainer(x) == x.t \in {"arr", "obj"}

\* JavaScript truthiness, as the ! operator tests it
Falsy(x) ==
    \/ x.t \in {"undef", "hole", "null"}
    \/ x.t = "bool" /\ ~x.v
    \/ x.t = "num" /\ x.v = 0
    \/ x.t = "str" /\ x.v = ""

\* Date.prototype.toISOString, which JSON.stringify applies to a Date
ToISOString(n) == "T" \o ToString(n)

-----------------------------------------------------------------------------
(* Path tokens *)

Digits == {"0", "1", "2", "3", "4", "5", "6", "7", "8", "9"}

DigitValue(c) ==
    CASE c = "0" -> 0 [] c = "1" -> 1 [] c = "2" -> 2 [] c = "3" -> 3
      [] c = "4" -> 4 [] c = "5" -> 5 [] c = "6" -> 6 [] c = "7" -> 7
      [] c = "8" -> 8 [] c = "9" -> 9

RECURSIVE JoinChars(_)
\* the string made of the characters cs
JoinChars(cs) == IF cs = <<>> THEN "" ELSE Head(cs) \o JoinChars(Tail(cs))

\* /^\d+$/.test(token)
IsNumeral(tok) == tok # <<>> /\ \A i \in 1..Len(tok) : tok[i] \in Digits

\* a property name that is an array index: a numeral without a leading zero
IsArrayIndex(tok) == IsNumeral(tok) /\ (Len(tok) = 1 \/ tok[1] # "0")

RECURSIVE ToNat(_)
ToNat(tok) ==
    IF tok = <<>> THEN 0
    ELSE 10 * ToNat(SubSeq(tok, 1, Len(tok) - 1)) + DigitValue(tok[Len(tok)])

RECURSIVE parseFrom(_, _, _, _, _)
\* the loop of parsePath from position i: the tokens pushed so far, the token
\* being read, and whether the position is inside brackets
parseFrom(path, i, res, current, inBrackets) ==
    LET flushed == IF current # <<>> THEN Append(res, current) ELSE res
    IN  IF i > Len(path) THEN flushed
        ELSE LET char == path[i]
             IN  IF char = "[" THEN parseFrom(path, i + 1, flushed, <<>>, TRUE)
                 ELSE IF char = "]" THEN parseFrom(path, i + 1, flushed, <<>>, FALSE)
                 ELSE IF char = "." /\ ~inBrackets
                      THEN parseFrom(path, i + 1, flushed, <<>>, inBrackets)
                 ELSE parseFrom(path, i + 1, res, Append(current, char), inBrackets)

\* parsePath reading its first characters as if inside brackets
parsePathFromInside(path) == parseFrom(path, 1, <<>>, <<>>, TRUE)

\* parsePath: "characters[0].name" -> <<"characters", "0", "name">>, each token
\* kept as its sequence of characters
parsePath(path) == parseFrom(path, 1, <<>>, <<>>, FALSE)

\* the path taken as written, no prefix removed
KeepGamePrefix(path) == path

\* fieldSelector.replace(/^game\./, '')
StripGamePrefix(path) ==
    IF Len(path) >= 5 /\ SubSeq(path, 1, 5) = <<"g", "a", "m", "e", ".">>
    THEN SubSeq(path, 6, Len(path))
    ELSE path

-----------------------------------------------------------------------------
(* Reading and writing properties of a value *)

\* key in container
HasKey(c, tok) ==
    IF c.t = "obj" THEN JoinChars(tok) \in DOMAIN c.v
    ELSE \/ IsArrayIndex(tok) /\ ToNat(tok) < Len(c.v) /\ c.v[ToNat(tok) + 1] # Hole
         \/ JoinChars(tok) = "length"
         \/ JoinChars(tok) \in DOMAIN c.p

\* container[key]
GetKey(c, tok) ==
    IF c.t = "obj"
    THEN IF JoinChars(tok) \in DOMAIN c.v THEN c.v[JoinChars(tok)] ELSE Undef
    ELSE IF IsArrayIndex(tok)
         THEN IF ToNat(tok) < Len(c.v) /\ c.v[ToNat(tok) + 1] # Hole
              THEN c.v[ToNat(tok) + 1] ELSE Undef
         ELSE IF JoinChars(tok) = "length" THEN Num(Len(c.v))
         ELSE IF JoinChars(tok) \in DOMAIN c.p THEN c.p[JoinChars(tok)] ELSE Undef

\* an array of length n that agrees with s where s is defined, holes elsewhere
Resized(s, n) == [i \in 1..n |-> IF i <= Len(s) THEN s[i] ELSE Hole]

\* container[key] = value; ok is FALSE where the assignment throws
SetKey(c, tok, value) ==
    IF c.t = "obj"
    THEN [ok |-> TRUE, v |-> Obj((JoinChars(tok) :> value) @@ c.v)]
    ELSE IF IsArrayIndex(tok)
         THEN LET n == ToNat(tok)
                  grown == IF n < Len(c.v) THEN c.v ELSE Resized(c.v, n + 1)
              IN  [ok |-> TRUE, v |-> [c EXCEPT !.v = [grown EXCEPT ![n + 1] = value]]]
         ELSE IF JoinChars(tok) = "length"
         THEN IF value.t = "num" /\ value.v >= 0
              THEN [ok |-> TRUE, v |-> [c EXCEPT !.v = Resized(c.v, value.v)]]
              ELSE IF value.t = "null"
              THEN [ok |-> TRUE, v |-> [c EXCEPT !.v = <<>>]]
              ELSE [ok |-> FALSE, v |-> c]
         ELSE [ok |-> TRUE, v |-> [c EXCEPT !.p = (JoinChars(tok) :> value) @@ c.p]]

RECURSIVE writeFrom(_, _, _, _)
\* the walk of setNestedValue from keys[i] in the container current; ok is
\* FALSE where the walk throws (the in operator or an assignment applied to a
\* value that is no object)
writeFrom(current, keys, i, value) ==
    IF ~IsContainer(current) THEN [ok |-> FALSE, v |-> current]
    ELSE IF i >= Len(keys)
    THEN SetKey(current, IF keys = <<>> THEN <<"u","n","d","e","f","i","n","e","d">>
                         ELSE keys[Len(keys)], value)
    ELSE LET key == keys[i]
             nextKey == keys[i + 1]
             made == IF HasKey(current, key) THEN current
                     ELSE SetKey(current, key,
                                 IF IsNumeral(nextKey) THEN Arr(<<>>) ELSE Obj(<<>>)).v
             below == writeFrom(GetKey(made, key), keys, i + 1, value)
         IN  IF below.ok THEN SetKey(made, key, below.v)
             ELSE [ok |-> FALSE, v |-> current]

RECURSIVE writeFromMaps(_, _, _, _)
\* the walk creating an object for every missing key, whatever the next key
writeFromMaps(current, keys, i, value) ==
    IF ~IsContainer(current) THEN [ok |-> FALSE, v |-> current]
    ELSE IF i >= Len(keys)
    THEN SetKey(current, IF keys = <<>> THEN <<"u","n","d","e","f","i","n","e","d">>
                         ELSE keys[Len(keys)], value)
    ELSE LET key == keys[i]
             made == IF HasKey(current, key) THEN current
                     ELSE SetKey(current, key, Obj(<<>>)).v
             below == writeFromMaps(GetKey(made, key), keys, i + 1, value)
         IN  IF below.ok THEN SetKey(made, key, below.v)
             ELSE [ok |-> FALSE, v |-> current]

\* setNestedValue without the look at the next key
setNestedValueMapsOnly(obj, path, value) ==
    writeFromMaps(obj, parsePath(path), 1, value)

RECURSIVE writeFromConverts(_, _, _, _)
\* the walk replacing what a key holds by an empty container of the kind the
\* next key asks for, where it holds one of the other kind
writeFromConverts(current, keys, i, value) ==
    IF ~IsContainer(current) THEN [ok |-> FALSE, v |-> current]
    ELSE IF i >= Len(keys)
    THEN SetKey(current, IF keys = <<>> THEN <<"u","n","d","e","f","i","n","e","d">>
                         ELSE keys[Len(keys)], value)
    ELSE LET key == keys[i]
             nextKey == keys[i + 1]
             wanted == IF IsNumeral(nextKey) THEN Arr(<<>>) ELSE Obj(<<>>)
             made == IF HasKey(current, key) /\ GetKey(current, key).t = wanted.t
                     THEN current
                     ELSE SetKey(current, key, wanted).v
             below == writeFromConverts(GetKey(made, key), keys, i + 1, value)
         IN  IF below.ok THEN SetKey(made, key, below.v)
             ELSE [ok |-> FALSE, v |-> current]

\* setNestedValue converting the containers it walks through
setNestedValueConverts(obj, path, value) ==
    writeFromConverts(obj, parsePath(path), 1, value)

\* setNestedValue(obj, path, value)
setNestedValue(obj, path, value) == writeFrom(obj, parsePath(path), 1, value)

RECURSIVE DeepCopy(_)
\* JSON.parse(JSON.stringify(x)): a Date becomes its ISO string, an undefined
\* property is dropped, an undefined or missing array element becomes null,
\* and the properties of an array that are no index are dropped
DeepCopy(x) ==
    CASE x.t = "date" -> Str(ToISOString(x.v))
      [] x.t = "arr" ->
            Arr([i \in 1..Len(x.v) |->
                    IF x.v[i].t \in {"undef", "hole"} THEN Null ELSE DeepCopy(x.v[i])])
      [] x.t = "obj" ->
            Obj([k \in {j \in DOMAIN x.v : x.v[j].t \notin {"undef", "hole"}} |->
                    DeepCopy(x.v[k])])
      [] OTHER -> x

-----------------------------------------------------------------------------
(* Fields of a game state *)

\* state.name, undefined when the state has no such property
Prop(o, name) == IF name \in DOMAIN o.v THEN o.v[name] ELSE Undef

\* state.name = value
With(o, name, value) == Obj((name :> value) @@ o.v)

\* the elements of state.name when it is an array, no elements otherwise
Items(o, name) == IF Prop(o, name).t = "arr" THEN Prop(o, name).v ELSE <<>>

(* What a call reports: no error, or the error thrown *)

NoError == "none"
NotFound == "Game with id not found"
NoSituation == "No current situation available for selection"
\* a required parameter is missing (each handler names its own)
Required == "parameters are required"
EmptyOptions == "options array cannot be empty"
\* a TypeError or RangeError thrown by the JavaScript runtime
TypeError == "TypeError"

Failed(gs, e) == [games |-> gs, error |-> e, nextActions |-> <<>>]
Done(gs, next) == [games |-> gs, error |-> NoError, nextActions |-> next]

-----------------------------------------------------------------------------
(* Delta tracking.  The GameManager that index.ts calls (clearDeltas,        *)
(* state._pendingDeltas) is not part of the sources; these three follow the  *)
(* specification's description of the Delta Entry.                           *)

RECURSIVE readFrom(_, _, _)
readFrom(current, keys, i) ==
    IF i > Len(keys) THEN current
    ELSE IF ~IsContainer(current) THEN Undef
    ELSE readFrom(GetKey(current, keys[i]), keys, i + 1)

\* the value observed at a path
getNestedValue(obj, path) == readFrom(obj, parsePath(path), 1)

\* the text of a value in a description
Show(x) ==
    CASE x.t = "num" -> ToString(x.v)
      [] x.t = "str" -> x.v
      [] x.t = "null" -> "null"
      [] x.t = "arr" -> "[array]"
      [] x.t = "obj" -> "[object]"
      [] OTHER -> "undefined"

\* trackDelta appending an entry for every write
trackDeltaAppends(oldState, newState, fieldSelector, value, now) ==
    LET field == JoinChars(fieldSelector)
        log == Items(newState, "_pendingDeltas")
        initial == getNestedValue(oldState, StripGamePrefix(fieldSelector))
    IN  With(newState, "_pendingDeltas",
             Arr(Append(log,
                        Obj([field |-> Str(field),
                             initialValue |-> initial,
                             finalValue |-> value,
                             timestamp |-> Date(now),
                             description |->
                                 Str(field \o ": " \o Show(initial) \o " to "
                                           \o Show(value))]))))

\* upsert of the Delta Entry of fieldSelector in newState, oldState being the
\* state before the write
trackDelta(oldState, newState, fieldSelector, value, now) ==
    LET field == JoinChars(fieldSelector)
        log == Items(newState, "_pendingDeltas")
        at == {i \in 1..Len(log) : Prop(log[i], "field") = Str(field)}
        initial == IF at = {}
                   THEN getNestedValue(oldState, StripGamePrefix(fieldSelector))
                   ELSE Prop(log[CHOOSE i \in at : TRUE], "initialValue")
        entry == Obj([field |-> Str(field),
                      initialValue |-> initial,
                      finalValue |-> value,
                      timestamp |-> Date(now),
                      description |->
                          Str(field \o ": " \o Show(initial) \o " to " \o Show(value))])
    IN  With(newState, "_pendingDeltas",
             Arr(IF at = {} THEN Append(log, entry)
                 ELSE [i \in 1..Len(log) |-> IF i \in at THEN entry ELSE log[i]]))

\* clearDeltas(gameId): empties the pending delta log
clearDeltas(gs, gameId) ==
    IF gameId \notin DOMAIN gs THEN gs
    ELSE [gs EXCEPT ![gameId].state = With(@, "_pendingDeltas", Arr(<<>>))]

-----------------------------------------------------------------------------
(* GameManager *)

\* createGame leaving updatedAt at the epoch
createGameNotStamped(gs, gameId, initialState, now) ==
    Done((gameId :> [state |-> initialState, createdAt |-> now, updatedAt |-> 0])
             @@ gs,
         <<"progressStory">>)

\* createGame(initialState), gameId being the value randomUUID() returns
createGame(gs, gameId, initialState, now) ==
    Done((gameId :> [state |-> initialState, createdAt |-> now, updatedAt |-> now])
             @@ gs,
         <<"progressStory">>)

\* updateGame setting updatedAt before it writes
updateGameStampsFirst(gs, gameId, fieldSelector, value, now) ==
    IF gameId \notin DOMAIN gs THEN Failed(gs, NotFound)
    ELSE LET game == [gs[gameId] EXCEPT !.updatedAt = now]
             newState == DeepCopy(game.state)
             cleanPath == StripGamePrefix(fieldSelector)
             written == setNestedValue(newState, cleanPath, value)
         IN  IF ~written.ok THEN Failed([gs EXCEPT ![gameId] = game], TypeError)
             ELSE Done([gs EXCEPT ![gameId] =
                           [game EXCEPT
                              !.state = trackDelta(newState, written.v,
                                                   fieldSelector, value, now)]],
                       <<"progressStory">>)

\* updateGame(gameId, fieldSelector, value): game.state becomes a new object
updateGame(gs, gameId, fieldSelector, value, now) ==
    IF gameId \notin DOMAIN gs THEN Failed(gs, NotFound)
    ELSE LET game == gs[gameId]
             newState == DeepCopy(game.state)
             cleanPath == StripGamePrefix(fieldSelector)
             written == setNestedValue(newState, cleanPath, value)
         IN  IF ~written.ok THEN Failed(gs, TypeError)
             ELSE Done([gs EXCEPT ![gameId] =
                           [game EXCEPT
                              !.state = trackDelta(newState, written.v,
                                                   fieldSelector, value, now),
                              !.updatedAt = now]],
                       <<"progressStory">>)

\* getGame dropping the pending deltas once they are read
getGameClears(gs, gameId) ==
    IF gameId \notin DOMAIN gs THEN Failed(gs, NotFound)
    ELSE Done(clearDeltas(gs, gameId), <<>>)

\* getGame(gameId)
getGame(gs, gameId) ==
    IF gameId \notin DOMAIN gs THEN Failed(gs, NotFound) ELSE Done(gs, <<>>)

\* push(entry) keeping the first HistoryLimit entries: slice(0, 10)
PushedKeepsOldest(hist, entry) ==
    LET all == Append(hist, entry)
    IN  IF Len(all) > HistoryLimit THEN SubSeq(all, 1, HistoryLimit) ELSE all

\* the history after push(entry): the last HistoryLimit entries
Pushed(hist, entry) ==
    LET all == Append(hist, entry)
    IN  IF Len(all) > HistoryLimit
        THEN SubSeq(all, Len(all) - HistoryLimit + 1, Len(all))
        ELSE all

\* addToGameHistory keeping, of the options offered, the selected one only
addToGameHistoryChosenOnly(state, selectedOption, selectedIndex, now) ==
    LET st == IF Falsy(Prop(state, "_gameHistory"))
              THEN With(state, "_gameHistory", Arr(<<>>))
              ELSE state
        hist == Prop(st, "_gameHistory")
        opts == Prop(st, "_currentOptions")
    IN  IF Falsy(Prop(st, "lastStoryProgress")) \/ Falsy(opts)
        THEN [ok |-> TRUE, state |-> st, pushed |-> <<>>]
        ELSE IF opts.t # "arr" \/ hist.t # "arr"
        THEN [ok |-> FALSE, state |-> st, pushed |-> <<>>]
        ELSE LET historyEntry ==
                     Obj([situation |-> Prop(st, "lastStoryProgress"),
                          options |-> Arr(<<selectedOption>>),
                          selectedOption |-> selectedOption,
                          selectedIndex |-> selectedIndex,
                          timestamp |-> Date(now)])
             IN  [ok |-> TRUE,
                  state |-> With(st, "_gameHistory",
                                 [hist EXCEPT !.v = Pushed(hist.v, historyEntry)]),
                  pushed |-> <<historyEntry>>]

\* addToGameHistory(game, selectedOption, selectedIndex): the state it leaves,
\* ok FALSE where it throws, and in pushed the entry it pushed, if any
addToGameHistory(state, selectedOption, selectedIndex, now) ==
    LET st == IF Falsy(Prop(state, "_gameHistory"))
              THEN With(state, "_gameHistory", Arr(<<>>))
              ELSE state
        hist == Prop(st, "_gameHistory")
        opts == Prop(st, "_currentOptions")
    IN  IF Falsy(Prop(st, "lastStoryProgress")) \/ Falsy(opts)
        THEN [ok |-> TRUE, state |-> st, pushed |-> <<>>]
        ELSE IF opts.t # "arr" \/ hist.t # "arr"
        THEN [ok |-> FALSE, state |-> st, pushed |-> <<>>]
        ELSE LET historyEntry ==
                     Obj([situation |-> Prop(st, "lastStoryProgress"),
                          options |-> Arr([i \in 1..Len(opts.v) |->
                                              IF opts.v[i] = Hole THEN Undef
                                              ELSE opts.v[i]]),
                          selectedOption |-> selectedOption,
                          selectedIndex |-> selectedIndex,
                          timestamp |-> Date(now)])
             IN  [ok |-> TRUE,
                  state |-> With(st, "_gameHistory",
                                 [hist EXCEPT !.v = Pushed(hist.v, historyEntry)]),
                  pushed |-> <<historyEntry>>]

\* selectAction withdrawing the options once one of them is selected
selectActionClears(gs, gameId, selectedOption, selectedIndex, now) ==
    IF gameId \notin DOMAIN gs THEN Failed(gs, NotFound)
    ELSE IF Falsy(Prop(gs[gameId].state, "lastStoryProgress"))
    THEN Failed(gs, NoSituation)
    ELSE LET added == addToGameHistory(gs[gameId].state, selectedOption,
                                       selectedIndex, now)
         IN  IF ~added.ok
             THEN Failed([gs EXCEPT ![gameId].state = added.state], TypeError)
             ELSE Done([gs EXCEPT
                          ![gameId].state =
                              With(With(added.state, "selectedAction",
                                        Obj([option |-> selectedOption,
                                             index |-> selectedIndex,
                                             timestamp |-> Date(now)])),
                                   "_currentOptions", Arr(<<>>)),
                          ![gameId].updatedAt = now],
                       <<"updateGame">>)

\* selectAction(gameId, selectedOption, selectedIndex)
selectAction(gs, gameId, selectedOption, selectedIndex, now) ==
    IF gameId \notin DOMAIN gs THEN Failed(gs, NotFound)
    ELSE IF Falsy(Prop(gs[gameId].state, "lastStoryProgress"))
    THEN Failed(gs, NoSituation)
    ELSE LET added == addToGameHistory(gs[gameId].state, selectedOption,
                                       selectedIndex, now)
         IN  IF ~added.ok
             THEN Failed([gs EXCEPT ![gameId].state = added.state], TypeError)
             ELSE Done([gs EXCEPT
                          ![gameId].state =
                              With(added.state, "selectedAction",
                                   Obj([option |-> selectedOption,
                                        index |-> selectedIndex,
                                        timestamp |-> Date(now)])),
                          ![gameId].updatedAt = now],
                       <<"updateGame">>)

\* progressStory starting a new round of deltas
progressStoryClears(gs, gameId, progress, now) ==
    IF gameId \notin DOMAIN gs THEN Failed(gs, NotFound)
    ELSE LET state == gs[gameId].state
         IN  Done(clearDeltas(
                      [gs EXCEPT
                         ![gameId].state =
                             With(With(state, "story", Obj([progress |-> progress])),
                                  "lastStoryProgress", progress),
                         ![gameId].updatedAt = now],
                      gameId),
                  <<"promptUserActions">>)

\* progressStory(gameId, progress)
progressStory(gs, gameId, progress, now) ==
    IF gameId \notin DOMAIN gs THEN Failed(gs, NotFound)
    ELSE LET state == gs[gameId].state
             story == Prop(state, "story")
             withStory ==
                 IF Falsy(story)
                 THEN [ok |-> TRUE, v |-> Obj([progress |-> progress])]
                 ELSE IF IsContainer(story)
                 THEN SetKey(story, <<"p","r","o","g","r","e","s","s">>, progress)
                 ELSE [ok |-> FALSE, v |-> story]
         IN  IF ~withStory.ok THEN Failed(gs, TypeError)
             ELSE Done([gs EXCEPT
                          ![gameId].state =
                              With(With(state, "story", withStory.v),
                                   "lastStoryProgress", progress),
                          ![gameId].updatedAt = now],
                       <<"promptUserActions">>)

\* promptUserActions writing the options it is given into the entries of the
\* history as well
promptUserActionsRewritesHistory(gs, gameId, options, now) ==
    IF gameId \notin DOMAIN gs THEN Failed(gs, NotFound)
    ELSE LET hist == Items(gs[gameId].state, "_gameHistory")
             rewritten == [i \in 1..Len(hist) |-> With(hist[i], "options", options)]
         IN  Done([gs EXCEPT
                     ![gameId].state =
                         With(With(@, "_currentOptions", options),
                              "_gameHistory", Arr(rewritten)),
                     ![gameId].updatedAt = now],
                  <<>>)

\* promptUserActions storing the options under an id it does not know
promptUserActionsUnchecked(gs, gameId, options, now) ==
    IF gameId \notin DOMAIN gs
    THEN Done((gameId :> [state |-> Obj([_currentOptions |-> options]),
                          createdAt |-> now, updatedAt |-> now]) @@ gs,
              <<>>)
    ELSE Done([gs EXCEPT ![gameId].state = With(@, "_currentOptions", options),
                         ![gameId].updatedAt = now],
              <<>>)

\* promptUserActions(gameId, options)
promptUserActions(gs, gameId, options, now) ==
    IF gameId \notin DOMAIN gs THEN Failed(gs, NotFound)
    ELSE Done([gs EXCEPT ![gameId].state = With(@, "_currentOptions", options),
                         ![gameId].updatedAt = now],
              <<>>)

\* deleteGame emptying the store: games.clear()
deleteGameClearsAll(gs, gameId) ==
    [games |-> <<>>, deleted |-> gameId \in DOMAIN gs]

\* deleteGame(gameId): Map.delete, true when the key was there
deleteGame(gs, gameId) ==
    [games |-> [g \in DOMAIN gs \ {gameId} |-> gs[g]],
     deleted |-> gameId \in DOMAIN gs]

-----------------------------------------------------------------------------
(* Tool handlers of RPGMCPServer.  A handler gets the store, the argument    *)
(* record of the call (a missing argument is Undef) and the clock, and       *)
(* gives the store it leaves, the error it throws or NoError, the next step  *)
(* its response names ("none" for no next step) and what it shows: for      *)
(* promptUserActions the descriptions in the delta section of the rendered   *)
(* UI, for selectRestart the line that counts the decisions.                 *)

Rejected(gs, e) == [games |-> gs, error |-> e, nextStep |-> "none", shown |-> <<>>]
Response(gs, next, shown) ==
    [games |-> gs, error |-> NoError, nextStep |-> next, shown |-> shown]

\* the errorResponse the catch of the request handler builds from the error
\* a handler threw, with the isError flag of the result that carries it
errorResponse(toolName, message, now) ==
    [error |-> message, tool |-> toolName, timestamp |-> ToISOString(now),
     isError |-> TRUE]

\* generateGameUI / generateDeltaSection: one item per pending delta
generateDeltaSection(gs, gameId) ==
    LET pendingDeltas == Items(gs[gameId].state, "_pendingDeltas")
    IN  [i \in 1..Len(pendingDeltas) |-> Prop(pendingDeltas[i], "description")]

\* handleCreateGame naming selectAction as the next step
handleCreateGameHintsSelect(gs, gameId, params, now) ==
    IF Falsy(params.initialStateInJson) THEN Rejected(gs, Required)
    ELSE Response(createGame(gs, gameId, params.initialStateInJson, now).games,
                  "selectAction", <<>>)

handleCreateGame(gs, gameId, params, now) ==
    IF Falsy(params.initialStateInJson) THEN Rejected(gs, Required)
    ELSE Response(createGame(gs, gameId, params.initialStateInJson, now).games,
                  "progressStory", <<>>)

\* the keyState line of the answer to an update that ends the game
GameEnded == "Game Status: ENDED"

\* handleUpdateGame keeping the end of the game in the document
handleUpdateGameStoresGameOver(gs, params, now) ==
    IF Falsy(params.gameId) \/ Falsy(Str(JoinChars(params.fieldSelector)))
          \/ params.value = Undef
    THEN Rejected(gs, Required)
    ELSE LET r == updateGame(gs, params.gameId.v, params.fieldSelector,
                             params.value, now)
         IN  IF r.error # NoError THEN Rejected(r.games, r.error)
             ELSE IF ~Falsy(params.isGameOver) /\ ~Falsy(params.gameOverReason)
             THEN Response([r.games EXCEPT ![params.gameId.v].state =
                               With(@, "isGameOver", Num(1))],
                           "none", <<GameEnded>>)
             ELSE Response(r.games, "progressStory", <<>>)

\* handleUpdateGame: the update is applied first; with isGameOver and a
\* gameOverReason the answer carries the game-over UI and names no next step
handleUpdateGame(gs, params, now) ==
    IF Falsy(params.gameId) \/ Falsy(Str(JoinChars(params.fieldSelector)))
          \/ params.value = Undef
    THEN Rejected(gs, Required)
    ELSE LET r == updateGame(gs, params.gameId.v, params.fieldSelector,
                             params.value, now)
         IN  IF r.error # NoError THEN Rejected(r.games, r.error)
             ELSE IF ~Falsy(params.isGameOver) /\ ~Falsy(params.gameOverReason)
             THEN Response(r.games, "none", <<GameEnded>>)
             ELSE Response(r.games, "progressStory", <<>>)

handleGetGame(gs, params) ==
    IF Falsy(params.gameId) THEN Rejected(gs, Required)
    ELSE LET r == getGame(gs, params.gameId.v)
         IN  IF r.error # NoError THEN Rejected(r.games, r.error)
             ELSE LET state == r.games[params.gameId.v].state
                      hasStory == ~Falsy(Prop(state, "lastStoryProgress"))
                      hasOptions == ~Falsy(Prop(state, "_currentOptions"))
                      hasSelection == ~Falsy(Prop(state, "selectedAction"))
                  IN  Response(r.games,
                               IF hasOptions /\ ~hasSelection THEN "none"
                               ELSE IF hasSelection THEN "updateGame"
                               ELSE IF hasStory THEN "promptUserActions"
                               ELSE "progressStory",
                               <<>>)

handleProgressStory(gs, params, now) ==
    IF Falsy(params.gameId) \/ params.progress.t # "str" THEN Rejected(gs, Required)
    ELSE LET r == progressStory(gs, params.gameId.v, params.progress, now)
         IN  IF r.error # NoError THEN Rejected(r.games, r.error)
             ELSE Response(r.games, "promptUserActions", <<>>)

\* handlePromptUserActions clearing the deltas before it renders them
handlePromptUserActionsClearsFirst(gs, params, now) ==
    IF Falsy(params.gameId) \/ params.options.t # "arr" THEN Rejected(gs, Required)
    ELSE IF Len(params.options.v) = 0 THEN Rejected(gs, EmptyOptions)
    ELSE LET r == promptUserActions(gs, params.gameId.v, params.options, now)
         IN  IF r.error # NoError THEN Rejected(r.games, r.error)
             ELSE LET cleared == clearDeltas(r.games, params.gameId.v)
                      uiHtml == generateDeltaSection(cleared, params.gameId.v)
                  IN  Response(cleared, "none", uiHtml)

\* handlePromptUserActions checking for an empty list after it stored it
handlePromptUserActionsChecksLate(gs, params, now) ==
    IF Falsy(params.gameId) \/ params.options.t # "arr" THEN Rejected(gs, Required)
    ELSE LET r == promptUserActions(gs, params.gameId.v, params.options, now)
         IN  IF r.error # NoError THEN Rejected(r.games, r.error)
             ELSE IF Len(params.options.v) = 0 THEN Rejected(r.games, EmptyOptions)
             ELSE LET uiHtml == generateDeltaSection(r.games, params.gameId.v)
                  IN  Response(clearDeltas(r.games, params.gameId.v), "none", uiHtml)

handlePromptUserActions(gs, params, now) ==
    IF Falsy(params.gameId) \/ params.options.t # "arr" THEN Rejected(gs, Required)
    ELSE IF Len(params.options.v) = 0 THEN Rejected(gs, EmptyOptions)
    ELSE LET r == promptUserActions(gs, params.gameId.v, params.options, now)
         IN  IF r.error # NoError THEN Rejected(r.games, r.error)
             ELSE LET uiHtml == generateDeltaSection(r.games, params.gameId.v)
                  IN  Response(clearDeltas(r.games, params.gameId.v), "none", uiHtml)

handleSelectAction(gs, params, now) ==
    IF Falsy(params.gameId) \/ Falsy(params.selectedOption)
          \/ params.selectedIndex = Undef
    THEN Rejected(gs, Required)
    ELSE LET r == selectAction(gs, params.gameId.v, params.selectedOption,
                               params.selectedIndex, now)
         IN  IF r.error # NoError THEN Rejected(r.games, r.error)
             ELSE LET history == Items(r.games[params.gameId.v].state,
                                       "_gameHistory")
                      recent == SubSeq(history,
                                       IF Len(history) > 3 THEN Len(history) - 2
                                       ELSE 1,
                                       Len(history))
                  IN  \* recentChoices reads h.selectedOption of the last three
                      IF \E i \in 1..Len(recent) : recent[i] = Null
                      THEN Rejected(r.games, TypeError)
                      ELSE Response(r.games, "updateGame", <<>>)

\* the historyCount of the final state summary: state.gameHistory?.length || 0.
\* The length of an array is counted; a string under that key, whose length
\* JavaScript would give, is not among the documents of the model.
historyCount(state) ==
    IF state.t # "obj" THEN 0
    ELSE LET gameHistory == Prop(state, "gameHistory")
         IN  IF gameHistory.t = "arr" THEN Len(gameHistory.v) ELSE 0

\* the line of the answer that reports the decisions made
DecisionsMade(n) == "Total decisions made: " \o ToString(n)

\* the answer of selectRestart shows the count of decisions
handleSelectRestart(gs, params) ==
    IF Falsy(params.gameId) THEN Rejected(gs, Required)
    ELSE LET r == getGame(gs, params.gameId.v)
         IN  IF r.error # NoError THEN Rejected(r.games, r.error)
             ELSE Response(r.games, "createGame",
                           <<DecisionsMade(
                                historyCount(r.games[params.gameId.v].state))>>)

-----------------------------------------------------------------------------
(* The tool calls *)

\* what the CallToolRequest handler returns for a call of tool with the
\* arguments params, kept with the call it answers
Returned(tool, params, out) ==
    [tool |-> tool, params |-> params, error |-> out.error,
     nextStep |-> out.nextStep, shown |-> out.shown]

\* the entry a selectAction call pushes onto the history, if it pushes one
PushedEntry(gs, params, now) ==
    addToGameHistory(gs[params.gameId.v].state, params.selectedOption,
                     params.selectedIndex, now).pushed

\* a game's state is the object the caller still holds: what is assigned
\* inside the one is assigned inside the other
IsShared(gs, id) == id.t = "str" /\ id.v \in aliases /\ id.v \in DOMAIN gs

\* the store after the state of game id was changed in place
SharedGames(gs, id) ==
    IF IsShared(gs, id)
    THEN [h \in DOMAIN gs |->
             IF h \in aliases THEN [gs[h] EXCEPT !.state = gs[id.v].state]
             ELSE gs[h]]
    ELSE gs

\* the caller's object after the state of game id was changed in place
SharedOriginal(gs, id) == IF IsShared(gs, id) THEN gs[id.v].state ELSE original

\* createGame with a document nothing else refers to (the arguments of a
\* tool call, parsed from the request)
CallCreateGame(gameId, params) ==
    LET out == handleCreateGame(games, gameId, params, clock)
    IN  /\ gameId \notin DOMAIN games
        /\ games' = out.games
        /\ result' = Returned("createGame", params, out)
        /\ UNCHANGED <<clock, recorded, original, aliases, pending>>

\* createGame with the document object the caller holds on to: state:
\* initialState stores the object itself
CallCreateGameByReference(gameId) ==
    LET params == [initialStateInJson |-> original]
        out == handleCreateGame(games, gameId, params, clock)
    IN  /\ gameId \notin DOMAIN games
        /\ games' = out.games
        /\ result' = Returned("createGame", params, out)
        /\ aliases' = IF out.error = NoError THEN aliases \cup {gameId} ELSE aliases
        /\ UNCHANGED <<clock, recorded, original, pending>>

\* the caller assigns a field of its document object; no tool is called
CallerEdits(name, value) ==
    /\ Prop(original, name) # value
    /\ original' = With(original, name, value)
    /\ games' = [h \in DOMAIN games |->
                    IF h \in aliases THEN [games[h] EXCEPT !.state = original']
                    ELSE games[h]]
    /\ result' = [tool |-> "none", params |-> [field |-> name, value |-> value],
                  error |-> NoError, nextStep |-> "none", shown |-> <<>>]
    /\ UNCHANGED <<clock, recorded, aliases, pending>>

CallUpdateGame(params) ==
    LET out == handleUpdateGame(games, params, clock)
    IN  /\ games' = out.games
        /\ result' = Returned("updateGame", params, out)
        /\ aliases' = IF out.error = NoError THEN aliases \ {params.gameId.v}
                      ELSE aliases
        /\ UNCHANGED <<clock, recorded, original, pending>>

CallGetGame(params) ==
    LET out == handleGetGame(games, params)
    IN  /\ games' = out.games
        /\ result' = Returned("getGame", params, out)
        /\ UNCHANGED <<clock, recorded, original, aliases, pending>>

CallProgressStory(params) ==
    LET out == handleProgressStory(games, params, clock)
    IN  /\ games' = SharedGames(out.games, params.gameId)
        /\ original' = SharedOriginal(out.games, params.gameId)
        /\ result' = Returned("progressStory", params, out)
        /\ UNCHANGED <<clock, recorded, aliases, pending>>

CallPromptUserActions(params) ==
    LET out == handlePromptUserActions(games, params, clock)
    IN  /\ games' = SharedGames(out.games, params.gameId)
        /\ original' = SharedOriginal(out.games, params.gameId)
        /\ result' = Returned("promptUserActions", params, out)
        /\ UNCHANGED <<clock, recorded, aliases, pending>>

\* at most cap history entries are pushed for one game
CallSelectAction(params, cap) ==
    LET out == handleSelectAction(games, params, clock)
    IN  /\ params.gameId.t = "str" => Len(recorded[params.gameId.v]) < cap
        /\ games' = SharedGames(out.games, params.gameId)
        /\ original' = SharedOriginal(out.games, params.gameId)
        /\ result' = Returned("selectAction", params, out)
        /\ recorded' =
              IF out.error = NoError
              THEN [recorded EXCEPT ![params.gameId.v] =
                       @ \o PushedEntry(games, params, clock)]
              ELSE recorded
        /\ UNCHANGED <<clock, aliases, pending>>

CallSelectRestart(params) ==
    LET out == handleSelectRestart(games, params)
    IN  /\ games' = out.games
        /\ result' = Returned("selectRestart", params, out)
        /\ UNCHANGED <<clock, recorded, original, aliases, pending>>

\* GameManager.deleteGame called by the program that embeds the manager; the
\* boolean it returns is kept with the call
CallDeleteGame(gameId) ==
    LET out == deleteGame(games, gameId)
    IN  /\ games' = out.games
        /\ result' = [tool |-> "deleteGame", params |-> [gameId |-> Str(gameId)],
                      error |-> NoError, nextStep |-> "none", shown |-> <<>>,
                      deleted |-> out.deleted]
        /\ aliases' = aliases \ {gameId}
        /\ UNCHANGED <<clock, recorded, original, pending>>

\* time passes
Tick ==
    /\ clock < MaxClock
    /\ clock' = clock + 1
    /\ UNCHANGED <<games, result, recorded, original, aliases, pending>>

-----------------------------------------------------------------------------
(* The calls the model makes *)

\* the ids a call may name
RequestIds == {"g1", "g2"}

Chars(word) ==
    CASE word = "hp" -> <<"h", "p">>
      [] word = "characters[0].hp" ->
            <<"c","h","a","r","a","c","t","e","r","s","[","0","]",".","h","p">>
      [] word = "title.x" -> <<"t","i","t","l","e",".","x">>
      [] word = "quest.x" -> <<"q","u","e","s","t",".","x">>
      [] word = "_gameHistory[10]" ->
            <<"_","g","a","m","e","H","i","s","t","o","r","y","[","1","0","]">>
      [] word = "_currentOptions" ->
            <<"_","c","u","r","r","e","n","t","O","p","t","i","o","n","s">>
      [] word = "characters[2].hp" ->
            <<"c","h","a","r","a","c","t","e","r","s","[","2","]",".","h","p">>
      [] word = "characters[01].hp" ->
            <<"c","h","a","r","a","c","t","e","r","s","[","0","1","]",".","h","p">>
      [] word = "items[1].name" ->
            <<"i","t","e","m","s","[","1","]",".","n","a","m","e">>
      [] word = "story[0].b" ->
            <<"s","t","o","r","y","[","0","]",".","b">>
      [] word = "title[0].b" ->
            <<"t","i","t","l","e","[","0","]",".","b">>
      [] word = "story" -> <<"s","t","o","r","y">>
      [] word = "characters" -> <<"c","h","a","r","a","c","t","e","r","s">>
      [] word = "game.hp" -> <<"g","a","m","e",".","h","p">>
      [] word = "game.game.hp" -> <<"g","a","m","e",".","g","a","m","e",".","h","p">>
      [] word = "game.characters[0].hp" ->
            <<"g","a","m","e",".","c","h","a","r","a","c","t","e","r","s","[","0","]",
              ".","h","p">>
      [] word = "characters[-1]" ->
            <<"c","h","a","r","a","c","t","e","r","s","[","-","1","]">>
      [] word = "" -> <<>>

Hero == Obj([name |-> Str("Hero"), hp |-> Num(100)])
InitialState ==
    Obj([title |-> Str("T"), characters |-> Arr(<<Hero>>), quest |-> Null])

TwoOptions == Arr(<<Str("Flee"), Str("Fight")>>)

OneOption == Arr(<<Str("Flee")>>)
FiveOptions ==
    Arr(<<Str("Flee"), Str("Fight"), Str("Hide"), Str("Talk"), Str("Wait")>>)

OtherOptions == Arr(<<Str("Hide"), Str("Talk")>>)

NoCall == [tool |-> "none", params |-> <<>>, error |-> NoError,
           nextStep |-> "none", shown |-> <<>>]

\* the requests a client has in flight at a time
Slots == {1, 2}

\* no request in the slot
Idle == [pc |-> "idle", tool |-> "none", params |-> <<>>, out |-> NoCall]

Init ==
    /\ games = <<>>
    /\ clock = 0
    /\ result = NoCall
    /\ recorded = [g \in RequestIds |-> <<>>]
    /\ original = InitialState
    /\ aliases = {}
    /\ pending = [r \in Slots |-> Idle]

\* the arguments of updateGame, with and without the optional two
GameOverArgs(g, f, v, over, reason) ==
    [gameId |-> g, fieldSelector |-> Chars(f), value |-> v,
     isGameOver |-> over, gameOverReason |-> reason]
UpdateArgs(g, f, v) == GameOverArgs(g, f, v, Undef, Undef)
ProgressArgs(g, t) == [gameId |-> g, progress |-> t]
PromptArgs(g, o) == [gameId |-> g, options |-> o]
RestartArgs(g) == [gameId |-> g]
SelectArgs(g, o, i) == [gameId |-> g, selectedOption |-> o, selectedIndex |-> i]

\* a history entry as a caller may write it
SavedEntry ==
    Obj([situation |-> Str("You are hit."), options |-> TwoOptions,
         selectedOption |-> Str("Fight"), selectedIndex |-> Num(1),
         timestamp |-> Str(ToISOString(0))])

-----------------------------------------------------------------------------
(* Tool requests in flight together.  The request handler is an async       *)
(* function: it runs without interruption from its start to its first await  *)
(* and from there to its return; other requests' handlers run in between.    *)

UnknownTool == "Unknown tool"

\* randomUUID(): an id no game has
randomUUID(gs) == CHOOSE g \in RequestIds : g \notin DOMAIN gs

\* switch (toolName): the handler called with the arguments of the request
callTool(gs, tool, params, now) ==
    CASE tool = "createGame" -> handleCreateGame(gs, randomUUID(gs), params, now)
      [] tool = "updateGame" -> handleUpdateGame(gs, params, now)
      [] tool = "getGame" -> handleGetGame(gs, params)
      [] tool = "progressStory" -> handleProgressStory(gs, params, now)
      [] tool = "promptUserActions" -> handlePromptUserActions(gs, params, now)
      [] tool = "selectAction" -> handleSelectAction(gs, params, now)
      [] tool = "selectRestart" -> handleSelectRestart(gs, params)
      [] OTHER -> Rejected(gs, UnknownTool)

\* the request handler with an await inside handlePromptUserActions, between
\* storing the options and rendering and clearing the deltas
runToAwaitSuspendsInPrompt(gs, req, now) ==
    IF req.pc = "arrived" /\ req.tool = "promptUserActions"
          /\ handlePromptUserActions(gs, req.params, now).error = NoError
    THEN [games |-> promptUserActions(gs, req.params.gameId.v,
                                      req.params.options, now).games,
          req |-> [req EXCEPT !.pc = "stored"]]
    ELSE IF req.pc = "stored"
    THEN LET uiHtml == generateDeltaSection(gs, req.params.gameId.v)
             out == Response(clearDeltas(gs, req.params.gameId.v), "none", uiHtml)
         IN  [games |-> out.games,
              req |-> [req EXCEPT !.pc = "awaiting",
                                  !.out = Returned(req.tool, req.params, out)]]
    ELSE IF req.pc = "arrived"
    THEN LET out == callTool(gs, req.tool, req.params, now)
         IN  [games |-> out.games,
              req |-> [req EXCEPT !.pc = "awaiting",
                                  !.out = Returned(req.tool, req.params, out)]]
    ELSE [games |-> gs, req |-> Idle]

\* the request handler run from where it stands to where it next gives way:
\* from its start to "result = await this.handle...(toolArgs)", the handler
\* called there having run to its end, and from that await to its return
runToAwait(gs, req, now) ==
    IF req.pc = "arrived"
    THEN LET out == callTool(gs, req.tool, req.params, now)
         IN  [games |-> out.games,
              req |-> [req EXCEPT !.pc = "awaiting",
                                  !.out = Returned(req.tool, req.params, out)]]
    ELSE [games |-> gs, req |-> Idle]

\* the selectAction requests in flight that have not run yet
SelectsArrived ==
    {r \in Slots : pending[r].pc = "arrived" /\ pending[r].tool = "selectAction"}

\* a request arrives while others are in flight
ReceiveRequest(r, tool, params) ==
    /\ pending[r].pc = "idle"
    /\ pending' = [pending EXCEPT ![r] = [pc |-> "arrived", tool |-> tool,
                                          params |-> params, out |-> NoCall]]
    /\ UNCHANGED <<games, clock, result, recorded, original, aliases>>

\* the createGame requests in flight that have not run yet
CreatesArrived ==
    {r \in Slots : pending[r].pc = "arrived" /\ pending[r].tool = "createGame"}

\* a createGame request arrives, at most cap games being created
ReceiveCreate(r, params, cap) ==
    /\ Cardinality(DOMAIN games) + Cardinality(CreatesArrived) < cap
    /\ ReceiveRequest(r, "createGame", params)

\* a selectAction request arrives, at most cap entries being pushed for a game
ReceiveSelect(r, params, cap) ==
    /\ Len(recorded[params.gameId.v]) + Cardinality(SelectsArrived) < cap
    /\ ReceiveRequest(r, "selectAction", params)

\* the player clicks button i of the choice UI on screen, rendered from the
\* options last offered: the click sends a selectAction request with the
\* option and the index the button carries
ClickOption(r, gameId, i, cap) ==
    /\ gameId \in DOMAIN games
    /\ i \in 1..Len(Items(games[gameId].state, "_currentOptions"))
    /\ ReceiveSelect(r, SelectArgs(Str(gameId),
                                   Items(games[gameId].state, "_currentOptions")[i],
                                   Num(i - 1)),
                     cap)

\* the handler of the request in slot r runs up to where it next gives way
RunRequest(r) ==
    LET req == pending[r]
        step == runToAwait(games, req, clock)
    IN  /\ req.pc # "idle"
        /\ games' = step.games
        /\ pending' = [pending EXCEPT ![r] = step.req]
        /\ result' = IF step.req.pc = "idle" THEN req.out ELSE result
        /\ recorded' =
              IF req.pc = "arrived" /\ req.tool = "selectAction"
                    /\ step.req.out.error = NoError
              THEN [recorded EXCEPT ![req.params.gameId.v] =
                       @ \o PushedEntry(games, req.params, clock)]
              ELSE recorded
        /\ UNCHANGED <<clock, original, aliases>>

\* Decision cycles on one game past the history limit, the choices offered
\* varying from cycle to cycle
NextEntries ==
    \/ CallCreateGame("g1", [initialStateInJson |-> InitialState])
    \/ CallProgressStory(ProgressArgs(Str("g1"), Str("You are hit.")))
    \/ \E options \in {TwoOptions, OtherOptions} :
          CallPromptUserActions(PromptArgs(Str("g1"), options))
    \/ CallSelectAction(SelectArgs(Str("g1"), Str("Flee"), Num(0)), MaxCycles)

SpecEntries == Init /\ [][NextEntries]_vars

\* A game played on after an update that ends it
NextGameOver ==
    \/ CallCreateGame("g1", [initialStateInJson |-> InitialState])
    \/ \E f \in {"characters[0].hp", "title.x"} :
          CallUpdateGame(GameOverArgs(Str("g1"), f, Num(0),
                                      Bool(TRUE), Str("You fell.")))
    \/ \E a \in {UpdateArgs(Str("g1"), "characters[0].hp", Num(80)),
                 GameOverArgs(Str("g1"), "characters[0].hp", Num(80),
                              Bool(TRUE), Str("")),
                 GameOverArgs(Str("g1"), "characters[0].hp", Num(80),
                              Bool(FALSE), Str("You fell."))} :
          CallUpdateGame(a)
    \/ CallGetGame([gameId |-> Str("g1")])
    \/ CallProgressStory(ProgressArgs(Str("g1"), Str("You are hit.")))
    \/ CallPromptUserActions(PromptArgs(Str("g1"), TwoOptions))
    \/ CallSelectAction(SelectArgs(Str("g1"), Str("Fight"), Num(1)), MaxSelects)
    \/ CallSelectRestart(RestartArgs(Str("g1")))

SpecGameOver == Init /\ [][NextGameOver]_vars

\* Games created, played, deleted and called again under their ids
NextDelete ==
    \/ \E gameId \in RequestIds :
          CallCreateGame(gameId, [initialStateInJson |-> InitialState])
    \/ \E gameId \in RequestIds : CallDeleteGame(gameId)
    \/ \E g \in RequestIds :
          \/ CallUpdateGame(UpdateArgs(Str(g), "hp", Num(80)))
          \/ CallGetGame([gameId |-> Str(g)])
          \/ CallProgressStory(ProgressArgs(Str(g), Str("You are hit.")))
          \/ CallPromptUserActions(PromptArgs(Str(g), TwoOptions))
          \/ CallSelectAction(SelectArgs(Str(g), Str("Fight"), Num(1)), MaxSelects)
          \/ CallSelectRestart(RestartArgs(Str(g)))

SpecDelete == Init /\ [][NextDelete]_vars

\* Games played for some decisions and then ended by the player's restart
NextRestart ==
    \/ \E params \in {[initialStateInJson |-> InitialState],
                       [initialStateInJson |->
                           With(InitialState, "gameHistory", Arr(<<SavedEntry>>))]} :
          \E gameId \in RequestIds : CallCreateGame(gameId, params)
    \/ \E g \in RequestIds :
          \/ CallProgressStory(ProgressArgs(Str(g), Str("You are hit.")))
          \/ CallPromptUserActions(PromptArgs(Str(g), TwoOptions))
          \/ CallSelectAction(SelectArgs(Str(g), Str("Fight"), Num(1)),
                              MaxSelects + 1)
          \/ CallSelectRestart(RestartArgs(Str(g)))
    \/ CallSelectRestart(RestartArgs(Undef))

SpecRestart == Init /\ [][NextRestart]_vars

\* Choices offered anew while the request of a click on the choices shown
\* before is in flight
NextClicks ==
    \/ CallCreateGame("g1", [initialStateInJson |-> InitialState])
    \/ CallProgressStory(ProgressArgs(Str("g1"), Str("You are hit.")))
    \/ \E r \in Slots, options \in {TwoOptions, OtherOptions} :
          ReceiveRequest(r, "promptUserActions", PromptArgs(Str("g1"), options))
    \/ \E r \in Slots, i \in 1..2 : ClickOption(r, "g1", i, MaxSelects)
    \/ \E r \in Slots : RunRequest(r)

SpecClicks == Init /\ [][NextClicks]_vars

\* Requests on one game arriving while others are in flight
NextConcurrent ==
    \/ \E r \in Slots :
          \/ ReceiveCreate(r, [initialStateInJson |-> InitialState], 1)
          \/ ReceiveRequest(r, "updateGame",
                            UpdateArgs(Str("g1"), "characters[0].hp", Num(80)))
          \/ ReceiveRequest(r, "getGame", [gameId |-> Str("g1")])
          \/ ReceiveRequest(r, "progressStory",
                            ProgressArgs(Str("g1"), Str("You are hit.")))
          \/ ReceiveRequest(r, "promptUserActions", PromptArgs(Str("g1"), TwoOptions))
          \/ ReceiveSelect(r, SelectArgs(Str("g1"), Str("Fight"), Num(1)), MaxSelects)
    \/ \E r \in Slots : RunRequest(r)

SpecConcurrent == Init /\ [][NextConcurrent]_vars

\* Writes through paths with and without a leading game segment, once and
\* twice over
PrefixedPaths == {"hp", "game.hp", "game.game.hp", "game.characters[0].hp"}

NextPrefix ==
    \/ CallCreateGame("g1", [initialStateInJson |-> InitialState])
    \/ \E f \in PrefixedPaths, n \in {5, 6} :
          CallUpdateGame(UpdateArgs(Str("g1"), f, Num(n)))
    \/ CallGetGame([gameId |-> Str("g1")])
    \/ CallProgressStory(ProgressArgs(Str("g1"), Str("You are hit.")))

SpecPrefix == Init /\ [][NextPrefix]_vars

\* A write under a negative subscript, with other writes, reads and narration
\* after it
NextNegative ==
    \/ CallCreateGame("g1", [initialStateInJson |-> InitialState])
    \/ \E a \in {UpdateArgs(Str("g1"), "characters[-1]", Num(5)),
                 UpdateArgs(Str("g1"), "characters[0].hp", Num(80)),
                 UpdateArgs(Str("g1"), "characters[0].hp", Num(60))} :
          CallUpdateGame(a)
    \/ CallGetGame([gameId |-> Str("g1")])
    \/ CallProgressStory(ProgressArgs(Str("g1"), Str("You are hit.")))
    \/ CallPromptUserActions(PromptArgs(Str("g1"), TwoOptions))
    \/ Tick

SpecNegative == Init /\ [][NextNegative]_vars

\* A caller that calls createGame and from there the tool each answer names
\* as the next step, the player's selection arriving after each prompt
NextFlow ==
    \/ result.tool = "none" /\ CallCreateGame("g1", [initialStateInJson |-> InitialState])
    \/ /\ result.nextStep = "progressStory"
       /\ CallProgressStory(ProgressArgs(Str("g1"), Str("You are hit.")))
    \/ /\ result.nextStep = "promptUserActions"
       /\ CallPromptUserActions(PromptArgs(Str("g1"), TwoOptions))
    \/ /\ \/ result.nextStep = "selectAction"
          \/ result.tool = "promptUserActions" /\ result.nextStep = "none"
       /\ CallSelectAction(SelectArgs(Str("g1"), Str("Fight"), Num(1)), MaxCycles)
    \/ /\ result.nextStep = "updateGame"
       /\ \E n \in {80, 60, 40} :
             CallUpdateGame(UpdateArgs(Str("g1"), "characters[0].hp", Num(n)))

SpecFlow == Init /\ [][NextFlow]_vars

\* Options lists of one, two and five entries offered on one game
NextOptions ==
    \/ CallCreateGame("g1", [initialStateInJson |-> InitialState])
    \/ CallUpdateGame(UpdateArgs(Str("g1"), "characters[0].hp", Num(80)))
    \/ CallGetGame([gameId |-> Str("g1")])
    \/ CallProgressStory(ProgressArgs(Str("g1"), Str("You are hit.")))
    \/ \E options \in {OneOption, TwoOptions, FiveOptions} :
          CallPromptUserActions(PromptArgs(Str("g1"), options))
    \/ CallSelectAction(SelectArgs(Str("g1"), Str("Flee"), Num(0)), MaxSelects)

SpecOptions == Init /\ [][NextOptions]_vars

-----------------------------------------------------------------------------
(* parsePath on its own, over every short string of path characters *)

PathChars == {"a", "0", ".", "[", "]"}

\* the strings of at most n path characters
PathsUpTo(n) == UNION {[1..k -> PathChars] : k \in 0..n}

\* a path is picked; nothing is parsed yet
InitParse ==
    /\ games = <<>>
    /\ clock = 0
    /\ \E path \in PathsUpTo(MaxPathLen) \cup {Chars("characters[0].hp")} :
          result = [tool |-> "none", params |-> [path |-> path], tokens |-> <<>>]
    /\ recorded = [g \in RequestIds |-> <<>>]
    /\ original = InitialState
    /\ aliases = {}
    /\ pending = [r \in Slots |-> Idle]

\* const keys = this.parsePath(path)
ApplyParsePath ==
    /\ result.tool = "none"
    /\ result' = [tool |-> "parsePath", params |-> result.params,
                  tokens |-> parsePath(result.params.path)]
    /\ UNCHANGED <<games, clock, recorded, original, aliases, pending>>

SpecParse == InitParse /\ [][ApplyParsePath]_vars

\* One game: writes to a content field and over a bookkeeping field, narration (also empty), choices, selections, reads,
\* with time passing
Next ==
    \/ CallCreateGame("g1", [initialStateInJson |-> InitialState])
    \/ \E a \in {UpdateArgs(Str("g1"), "characters[0].hp", Num(80)),
                 UpdateArgs(Str("g1"), "characters[0].hp", Num(60)),
                 UpdateArgs(Str("g1"), "_currentOptions", Num(5))} :
          CallUpdateGame(a)
    \/ CallGetGame([gameId |-> Str("g1")])
    \/ \E a \in {ProgressArgs(Str("g1"), Str("You are hit.")),
                 ProgressArgs(Str("g1"), Str(""))} :
          CallProgressStory(a)
    \/ CallPromptUserActions(PromptArgs(Str("g1"), TwoOptions))
    \/ CallSelectAction(SelectArgs(Str("g1"), Str("Fight"), Num(1)), MaxSelects)
    \/ Tick

Spec == Init /\ [][Next]_vars

\* Calls that are to be refused, among well-formed ones: an id never issued,
\* an argument missing, an empty options list, a path through a string and
\* through null
NextErrors ==
    \/ \E init \in {InitialState, Undef} :
          CallCreateGame("g1", [initialStateInJson |-> init])
    \/ \E a \in {UpdateArgs(Str("g1"), "characters[0].hp", Num(80)),
                 UpdateArgs(Str("g2"), "characters[0].hp", Num(80)),
                 UpdateArgs(Str("g1"), "title.x", Num(5)),
                 UpdateArgs(Str("g1"), "quest.x", Num(5)),
                 UpdateArgs(Str("g1"), "", Num(80)),
                 UpdateArgs(Str("g1"), "characters[0].hp", Undef)} :
          CallUpdateGame(a)
    \/ \E g \in {Str("g1"), Str("g2"), Undef} : CallGetGame([gameId |-> g])
    \/ \E a \in {ProgressArgs(Str("g1"), Str("You are hit.")),
                 ProgressArgs(Str("g2"), Str("You are hit.")),
                 ProgressArgs(Str("g1"), Undef)} :
          CallProgressStory(a)
    \/ \E a \in {PromptArgs(Str("g1"), TwoOptions),
                 PromptArgs(Str("g1"), Arr(<<>>)),
                 PromptArgs(Str("g2"), TwoOptions),
                 PromptArgs(Str("g1"), Undef)} :
          CallPromptUserActions(a)
    \/ \E a \in {SelectArgs(Str("g1"), Str("Fight"), Num(1)),
                 SelectArgs(Str("g2"), Str("Fight"), Num(1)),
                 SelectArgs(Str("g1"), Undef, Num(1)),
                 SelectArgs(Str("g1"), Str("Fight"), Undef)} :
          CallSelectAction(a, MaxSelects)
    \/ Tick

SpecErrors == Init /\ [][NextErrors]_vars

\* Decision cycles on one game, the selection varying: no write in between
NextCycles ==
    \/ CallCreateGame("g1", [initialStateInJson |-> InitialState])
    \/ CallGetGame([gameId |-> Str("g1")])
    \/ CallProgressStory(ProgressArgs(Str("g1"), Str("You are hit.")))
    \/ CallPromptUserActions(PromptArgs(Str("g1"), TwoOptions))
    \/ \E a \in {SelectArgs(Str("g1"), Str("Flee"), Num(0)),
                 SelectArgs(Str("g1"), Str("Fight"), Num(1))} :
          CallSelectAction(a, MaxCycles)

SpecCycles == Init /\ [][NextCycles]_vars

\* Decision cycles on one game past the history limit, with writes under
\* the key that holds the history
NextHistory ==
    \/ CallCreateGame("g1", [initialStateInJson |-> InitialState])
    \/ CallUpdateGame(UpdateArgs(Str("g1"), "_gameHistory[10]", SavedEntry))
    \/ CallGetGame([gameId |-> Str("g1")])
    \/ CallProgressStory(ProgressArgs(Str("g1"), Str("You are hit.")))
    \/ CallPromptUserActions(PromptArgs(Str("g1"), TwoOptions))
    \/ CallSelectAction(SelectArgs(Str("g1"), Str("Fight"), Num(1)), MaxCycles)

SpecHistory == Init /\ [][NextHistory]_vars

\* Two games created from the one document object a caller holds on to and
\* goes on to edit
NextAlias ==
    \/ \E g \in RequestIds : CallCreateGameByReference(g)
    \/ CallerEdits("title", Str("X"))
    \/ CallUpdateGame(UpdateArgs(Str("g1"), "characters[0].hp", Num(80)))
    \/ \E g \in RequestIds : CallGetGame([gameId |-> Str(g)])
    \/ \E g \in RequestIds :
          CallProgressStory(ProgressArgs(Str(g), Str("You are hit.")))
    \/ CallPromptUserActions(PromptArgs(Str("g1"), TwoOptions))
    \/ CallSelectAction(SelectArgs(Str("g1"), Str("Fight"), Num(1)), MaxSelects)

SpecAlias == Init /\ [][NextAlias]_vars

\* Writes through paths of the form a[i].b: past the end of an array, with an
\* index written with a leading zero, under a key that is not there, into an
\* object (story, once there is one) and into a string
IndexedPaths ==
    {"characters[2].hp", "characters[01].hp", "items[1].name", "story[0].b",
     "title[0].b"}

NextPaths ==
    \/ CallCreateGame("g1", [initialStateInJson |-> InitialState])
    \/ \E f \in IndexedPaths : CallUpdateGame(UpdateArgs(Str("g1"), f, Num(5)))
    \/ CallGetGame([gameId |-> Str("g1")])
    \/ CallProgressStory(ProgressArgs(Str("g1"), Str("You are hit.")))

SpecPaths == Init /\ [][NextPaths]_vars

\* The operations on one game in any order, with a write that puts a string
\* under the key progressStory keeps its sub-object under
NextOrder ==
    \/ CallCreateGame("g1", [initialStateInJson |-> InitialState])
    \/ \E a \in {UpdateArgs(Str("g1"), "characters[0].hp", Num(80)),
                 UpdateArgs(Str("g1"), "story", Str("Chapter 1"))} :
          CallUpdateGame(a)
    \/ CallGetGame([gameId |-> Str("g1")])
    \/ CallProgressStory(ProgressArgs(Str("g1"), Str("You are hit.")))
    \/ CallPromptUserActions(PromptArgs(Str("g1"), TwoOptions))
    \/ CallSelectAction(SelectArgs(Str("g1"), Str("Fight"), Num(1)), MaxSelects)

SpecOrder == Init /\ [][NextOrder]_vars

-----------------------------------------------------------------------------
(* Properties *)

\* the rolling decision history of game g
History(g) == Items(games[g].state, "_gameHistory")

\* the pending delta log of game g in the store gs
PendingDeltas(gs, g) == Items(gs[g].state, "_pendingDeltas")

\* the last n elements of s
LastOf(s, n) == IF Len(s) <= n THEN s ELSE SubSeq(s, Len(s) - n + 1, Len(s))

\* the step is a call of tool (result keeps the last call while time passes)
Called(tool) == clock' = clock /\ result'.tool = tool

\* the step is a call of tool that names game g and succeeds
Succeeded(tool, g) ==
    Called(tool) /\ result'.error = NoError /\ result'.params.gameId = Str(g)

\* C1: in every reachable state the rolling decision history of every game
\* holds at most 10 entries, whatever calls produced the state.
C1_HistoryAtMostTen == \A g \in DOMAIN games : Len(History(g)) <= HistoryLimit

\* C2: after 11 or more decision cycles on a game its history is the entries
\* of the 10 most recent cycles in the order they were recorded: at every
\* moment it is the last 10 of all the entries pushed so far, so each push
\* past the 10th drops the oldest entry and no other.
C2_HistoryIsLastTen ==
    \A g \in DOMAIN games : History(g) = LastOf(recorded[g], HistoryLimit)

\* an 11th or later selection has just evicted an entry that differs from the
\* one now oldest
C2_Evicted ==
    /\ "g1" \in DOMAIN games
    /\ result.tool = "selectAction" /\ result.error = NoError
    /\ Len(recorded["g1"]) > HistoryLimit
    /\ Len(History("g1")) = HistoryLimit
    /\ History("g1")[1] # recorded["g1"][1]

\* the log holds at most one entry for a field
OneEntryPerField(log) ==
    \A i, j \in 1..Len(log) :
        Prop(log[i], "field") = Prop(log[j], "field") => i = j

\* the descriptions of the entries of a log, in order
Descriptions(log) == [i \in 1..Len(log) |-> Prop(log[i], "description")]

C5_ShownThenCleared ==
    [][\A g \in DOMAIN games :
          Succeeded("promptUserActions", g) =>
             /\ result'.shown = Descriptions(PendingDeltas(games, g))
             /\ PendingDeltas(games', g) = <<>>]_vars

\* a promptUserActions call has shown two deltas and left none
C5_TwoShown ==
    /\ "g1" \in DOMAIN games
    /\ result.tool = "promptUserActions" /\ result.error = NoError
    /\ Len(result.shown) = 2
    /\ PendingDeltas(games, "g1") = <<>>

\* the document holds a non-empty narrative text and a non-empty list of choices
HoldsSituation(state) ==
    /\ ~Falsy(Prop(state, "lastStoryProgress"))
    /\ Prop(state, "_currentOptions").t = "arr"
    /\ Len(Prop(state, "_currentOptions").v) > 0

\* C6: selectAction succeeds only on a game that holds both a non-empty
\* narrative text and a non-empty list of choices; where either is missing it
\* fails with the no-current-situation error and changes nothing.
C6_SelectNeedsNarrativeAndChoices ==
    [][\A g \in DOMAIN games :
          (Called("selectAction") /\ result'.params.gameId = Str(g)
              /\ ~Falsy(result'.params.selectedOption)
              /\ result'.params.selectedIndex # Undef) =>
             /\ result'.error = NoError => HoldsSituation(games[g].state)
             /\ ~HoldsSituation(games[g].state) =>
                    (result'.error = NoSituation /\ games' = games)]_vars

\* C7: a selectAction call that fails leaves every game exactly as it was:
\* document, history, last recorded choice and updatedAt.
C7_FailedSelectChangesNothing ==
    [][(Called("selectAction") /\ result'.error # NoError) => games' = games]_vars

\* the arguments a tool requires are all there, the game id aside
WellFormed(r) ==
    CASE r.tool = "updateGame" ->
            r.params.fieldSelector # <<>> /\ r.params.value # Undef
      [] r.tool = "getGame" -> TRUE
      [] r.tool = "progressStory" -> r.params.progress.t = "str"
      [] r.tool = "promptUserActions" ->
            r.params.options.t = "arr" /\ Len(r.params.options.v) > 0
      [] r.tool = "selectAction" ->
            ~Falsy(r.params.selectedOption) /\ r.params.selectedIndex # Undef
      [] OTHER -> FALSE

\* C8: updateGame, getGame, progressStory, promptUserActions and selectAction,
\* called with an id that is not in the store, fail with the not-found error,
\* change no game and create none.
C8_UnknownIdNotFound ==
    [][(/\ clock' = clock
        /\ WellFormed(result')
        /\ result'.params.gameId.t = "str"
        /\ result'.params.gameId.v # ""
        /\ result'.params.gameId.v \notin DOMAIN games) =>
          (result'.error = NotFound /\ games' = games)]_vars

\* selectAction has been refused for an id that is not in the store, next to
\* a game that is
C8_RefusedUnknown ==
    /\ DOMAIN games = {"g1"}
    /\ result.tool = "selectAction"
    /\ result.params.gameId = Str("g2")
    /\ result.error = NotFound

C10_RejectedBeforeMutation ==
    [][(clock' = clock /\ result'.error \in {Required, EmptyOptions}) =>
          games' = games]_vars

\* an empty options list has been rejected on a game that holds choices and
\* pending deltas and was last updated before now
C10_EmptyRejected ==
    /\ "g1" \in DOMAIN games
    /\ result.tool = "promptUserActions"
    /\ result.error = EmptyOptions
    /\ Prop(games["g1"].state, "_currentOptions") = TwoOptions
    /\ PendingDeltas(games, "g1") # <<>>
    /\ games["g1"].updatedAt < clock

\* the tools that take a game id
IdTools == {"updateGame", "getGame", "progressStory", "promptUserActions",
            "selectAction"}

\* C11: createGame stores a deep copy of the initial document: a change the
\* caller makes to its original afterwards changes no stored game, and no
\* tool call changes the caller's original.
C11_CreateStoresCopy ==
    [][/\ result'.tool = "none" => games' = games
       /\ result'.tool # "none" => original' = original]_vars

\* C12: games are independent: a call that names game A, and a createGame
\* call, leave the state and the timestamps of every other game B as they
\* were, also when A and B were created from the same document.
C12_GamesIndependent ==
    [][\A g \in DOMAIN games :
          (/\ clock' = clock
           /\ \/ result'.tool = "createGame"
              \/ result'.tool \in IdTools /\ result'.params.gameId # Str(g)) =>
             games'[g] = games[g]]_vars

\* C13: getGame is a pure read: it answers for every game in the store and
\* leaves every game as it was, document, pending delta log, history, choices
\* and updatedAt.
C13_GetIsPureRead ==
    [][(Called("getGame") /\ result'.params.gameId.t = "str") =>
          /\ games' = games
          /\ result'.error = NoError <=> result'.params.gameId.v \in DOMAIN games]_vars

\* a game that holds pending deltas, a history entry and choices, last updated
\* before now, has been read
C13_ReadFullGame ==
    /\ "g1" \in DOMAIN games
    /\ result.tool = "getGame" /\ result.error = NoError
    /\ PendingDeltas(games, "g1") # <<>>
    /\ History("g1") # <<>>
    /\ Prop(games["g1"].state, "_currentOptions") = TwoOptions
    /\ games["g1"].updatedAt < clock

\* the position of the first c in path, 0 if there is none
FirstOf(path, c) ==
    IF \E k \in 1..Len(path) : path[k] = c
    THEN CHOOSE k \in 1..Len(path) :
            path[k] = c /\ \A j \in 1..(k - 1) : path[j] # c
    ELSE 0

\* a run of characters that are no separator
IsWord(cs) == cs # <<>> /\ \A k \in 1..Len(cs) : cs[k] \notin {".", "[", "]"}

\* the parts a, i, b of a path written a[i].b
PartsOf(path) ==
    LET lb == FirstOf(path, "[")
        rb == FirstOf(path, "]")
    IN  [a |-> SubSeq(path, 1, lb - 1),
         i |-> SubSeq(path, lb + 1, rb - 1),
         b |-> SubSeq(path, rb + 2, Len(path))]

\* path is written a[i].b, i an integer in decimal digits, no leading zero
IsIndexedField(path) ==
    LET lb == FirstOf(path, "[")
        rb == FirstOf(path, "]")
    IN  /\ 1 < lb /\ lb + 1 < rb /\ rb + 2 <= Len(path)
        /\ path[rb + 1] = "."
        /\ IsWord(PartsOf(path).a) /\ IsWord(PartsOf(path).b)
        /\ \A k \in (lb + 1)..(rb - 1) : path[k] \in Digits
        /\ rb - lb = 2 \/ path[lb + 1] # "0"

\* state.a is a sequence of at least i + 1 elements whose element i holds v
\* under the key b
HoldsIndexedField(state, path, v) ==
    LET a == Prop(state, JoinChars(PartsOf(path).a))
        n == ToNat(PartsOf(path).i)
    IN  /\ a.t = "arr"
        /\ Len(a.v) >= n + 1
        /\ IsContainer(a.v[n + 1])
        /\ HasKey(a.v[n + 1], PartsOf(path).b)
        /\ GetKey(a.v[n + 1], PartsOf(path).b) = v

Without(o, name) == Obj([k \in DOMAIN o.v \ {name} |-> o.v[k]])

RECURSIVE SameExcept(_, _, _, _)
\* new is old but for what lies at or below keys[i], keys[i + 1], ...: every
\* other key and index holds the same value, and what new has more than old
\* is the gap before an element written past the end
SameExcept(old, new, keys, i) ==
    IF i > Len(keys) \/ ~IsContainer(old) THEN TRUE
    ELSE LET k == JoinChars(keys[i])
             at == IF old.t = "arr" /\ IsArrayIndex(keys[i])
                   THEN ToNat(keys[i]) + 1 ELSE 0
         IN  /\ new.t = old.t
             /\ IF old.t = "obj"
                THEN /\ DOMAIN new.v \ {k} = DOMAIN old.v \ {k}
                     /\ \A j \in DOMAIN old.v \ {k} : new.v[j] = old.v[j]
                ELSE /\ Len(new.v) >= Len(old.v)
                     /\ \A j \in (1..Len(old.v)) \ {at} : new.v[j] = old.v[j]
                     /\ \A j \in ((Len(old.v) + 1)..Len(new.v)) \ {at} :
                           new.v[j] = Hole
                     /\ DOMAIN new.p \ {k} = DOMAIN old.p \ {k}
                     /\ \A j \in DOMAIN old.p \ {k} : new.p[j] = old.p[j]
             /\ SameExcept(GetKey(old, keys[i]), GetKey(new, keys[i]), keys, i + 1)

\* C15: a successful updateGame(id, path, v) changes only the location the
\* path addresses, the containers it creates on the way and the pending delta
\* log: every other key and index of the document, the narrative text, the
\* choices, the history entries and the last recorded choice among them, holds
\* the same value before and after the call.
C15_UpdateChangesOnlyPath ==
    [][\A g \in DOMAIN games :
          Succeeded("updateGame", g) =>
             SameExcept(Without(games[g].state, "_pendingDeltas"),
                        Without(games'[g].state, "_pendingDeltas"),
                        parsePath(StripGamePrefix(result'.params.fieldSelector)),
                        1)]_vars

\* the call before this step was the same successful updateGame call, and the
\* path held nothing when it was first written (its delta entry starts from
\* undefined)
WrittenOnceFresh(g) ==
    /\ result.tool = "updateGame" /\ result.error = NoError
    /\ result.params = result'.params
    /\ \E i \in 1..Len(PendingDeltas(games, g)) :
          /\ Prop(PendingDeltas(games, g)[i], "field") =
                Str(JoinChars(result.params.fieldSelector))
          /\ Prop(PendingDeltas(games, g)[i], "initialValue") = Undef

\* C16: writing a scalar to a fresh path twice gives the document that
\* writing it once gives: the second of two successive updateGame(id, p, v)
\* calls leaves the document, the pending delta log aside, as the first left
\* it.
C16_SecondWriteChangesNothing ==
    [][\A g \in DOMAIN games :
          (/\ Succeeded("updateGame", g)
           /\ result'.params.value.t \in {"num", "str", "null"}
           /\ WrittenOnceFresh(g)) =>
             Without(games'[g].state, "_pendingDeltas") =
                Without(games[g].state, "_pendingDeltas")]_vars

\* C17: where a selectAction call succeeds on a game that holds a narrative
\* text and a list of choices, the last entry of the history it leaves has as
\* situation that narrative text, as options that whole list in order, and as
\* selectedOption and selectedIndex the arguments of the call.
C17_EntryHoldsSituationAndChoice ==
    [][\A g \in DOMAIN games :
          (Succeeded("selectAction", g) /\ HoldsSituation(games[g].state)) =>
             LET h == Items(games'[g].state, "_gameHistory")
             IN  /\ Len(h) > 0
                 /\ Prop(h[Len(h)], "situation") =
                        Prop(games[g].state, "lastStoryProgress")
                 /\ Prop(h[Len(h)], "options").t = "arr"
                 /\ Prop(h[Len(h)], "options").v =
                        Prop(games[g].state, "_currentOptions").v
                 /\ Prop(h[Len(h)], "selectedOption") =
                        result'.params.selectedOption
                 /\ Prop(h[Len(h)], "selectedIndex") =
                        result'.params.selectedIndex]_vars

C17_EntryAfterEarlierOnes ==
    /\ "g1" \in DOMAIN games
    /\ result.tool = "selectAction" /\ result.error = NoError
    /\ result.params.selectedOption = Str("Flee")
    /\ Len(History("g1")) >= 2
    /\ Prop(History("g1")[Len(History("g1"))], "selectedOption") = Str("Flee")
    /\ Prop(History("g1")[Len(History("g1"))], "options") = TwoOptions
    /\ Prop(History("g1")[1], "selectedOption") = Str("Fight")

\* C18: a selectAction call that succeeds leaves the selection it was given as
\* the selectedAction of the game, and leaves the current options and the
\* pending delta log as they were.
C18_SelectKeepsOptionsAndDeltas ==
    [][\A g \in DOMAIN games :
          Succeeded("selectAction", g) =>
             /\ Prop(Prop(games'[g].state, "selectedAction"), "option") =
                    result'.params.selectedOption
             /\ Prop(Prop(games'[g].state, "selectedAction"), "index") =
                    result'.params.selectedIndex
             /\ Prop(games'[g].state, "_currentOptions") =
                    Prop(games[g].state, "_currentOptions")
             /\ Prop(games'[g].state, "_pendingDeltas") =
                    Prop(games[g].state, "_pendingDeltas")]_vars

C18_SelectedWithDeltasPending ==
    /\ "g1" \in DOMAIN games
    /\ result.tool = "selectAction" /\ result.error = NoError
    /\ Prop(games["g1"].state, "_currentOptions") = TwoOptions
    /\ Len(PendingDeltas(games, "g1")) > 0
    /\ Prop(Prop(games["g1"].state, "selectedAction"), "option") = Str("Fight")

\* state.story.progress, undefined where state.story holds no such property
StoryProgress(state) ==
    LET story == Prop(state, "story")
    IN  IF story.t = "obj" THEN Prop(story, "progress")
        ELSE IF story.t = "arr" /\ "progress" \in DOMAIN story.p
        THEN story.p["progress"]
        ELSE Undef

\* C19: progressStory(id, text) on a game in the store leaves text as the
\* lastStoryProgress of the game and as the progress of its story object, and
\* leaves the pending delta log as it was.
C19_ProgressSetsNarrative ==
    [][\A g \in DOMAIN games :
          (Called("progressStory") /\ result'.params.gameId = Str(g)
              /\ result'.params.progress.t = "str") =>
             /\ Prop(games'[g].state, "lastStoryProgress") = result'.params.progress
             /\ StoryProgress(games'[g].state) = result'.params.progress
             /\ Prop(games'[g].state, "_pendingDeltas") =
                    Prop(games[g].state, "_pendingDeltas")]_vars

\* C20: on a game in the store progressStory with any text, promptUserActions
\* with any non-empty list of options and getGame succeed in every reachable
\* state, whatever calls came before and whatever the document holds.
C20_AnyOrderSucceeds ==
    [][\A g \in DOMAIN games :
          (/\ \E tool \in {"progressStory", "promptUserActions", "getGame"} :
                  Called(tool)
           /\ result'.params.gameId = Str(g)
           /\ WellFormed(result')) =>
             result'.error = NoError]_vars

\* C21: with tool requests in flight together, the first step of a request
\* is the whole of its handler applied to the store as it then stands, and
\* its only other step, which hands the result back, leaves the store alone:
\* no step comes between two writes of one call, and the execution is that
\* of the calls one at a time in the order their handlers ran.
C21_CallsRunWhole ==
    [][\A r \in Slots :
          (pending[r].pc # "idle" /\ pending'[r] # pending[r]) =>
             IF pending[r].pc = "arrived"
             THEN LET out == callTool(games, pending[r].tool, pending[r].params,
                                      clock)
                  IN  /\ games' = out.games
                      /\ pending'[r].pc = "awaiting"
                      /\ pending'[r].out =
                             Returned(pending[r].tool, pending[r].params, out)
             ELSE /\ pending[r].pc = "awaiting"
                  /\ games' = games
                  /\ pending'[r] = Idle
                  /\ result' = pending[r].out]_vars

C21_PromptRanBetweenTwoCalls ==
    /\ "g1" \in DOMAIN games
    /\ \E r, q \in Slots :
          /\ pending[r].pc = "awaiting" /\ pending[r].tool = "promptUserActions"
          /\ pending[r].out.error = NoError /\ Len(pending[r].out.shown) > 0
          /\ pending[q].pc = "awaiting" /\ pending[q].tool = "updateGame"
    /\ PendingDeltas(games, "g1") = <<>>

\* position i of path lies inside brackets: the bracket last met before it
\* is an opening one
InsideBrackets(path, i) ==
    \E j \in 1..(i - 1) :
       /\ path[j] = "["
       /\ \A k \in (j + 1)..(i - 1) : path[k] \notin {"[", "]"}

\* position i of path holds a separator
IsSeparator(path, i) ==
    \/ path[i] \in {"[", "]"}
    \/ path[i] = "." /\ ~InsideBrackets(path, i)

\* the non-empty runs of path between separators, each as <<first, last>>
Runs(path) ==
    {run \in (1..Len(path)) \X (1..Len(path)) :
        /\ run[1] <= run[2]
        /\ \A i \in run[1]..run[2] : ~IsSeparator(path, i)
        /\ run[1] = 1 \/ IsSeparator(path, run[1] - 1)
        /\ run[2] = Len(path) \/ IsSeparator(path, run[2] + 1)}

\* C22: parsePath yields one token for each non-empty run of characters
\* between separators ('.' outside brackets, '[' and ']'), in the order of
\* the runs, and nothing for an empty run; every string is parsed.
C22_TokensAreRuns ==
    result.tool = "parsePath" =>
       LET path == result.params.path
           tokens == result.tokens
       IN  /\ Len(tokens) = Cardinality(Runs(path))
           /\ \A run \in Runs(path) :
                  tokens[1 + Cardinality({other \in Runs(path) : other[1] < run[1]})]
                     = SubSeq(path, run[1], run[2])

C22_ParsedIndexedField ==
    /\ result.tool = "parsePath"
    /\ result.params.path = Chars("characters[0].hp")
    /\ result.tokens = <<Chars("characters"), <<"0">>, Chars("hp")>>

\* path is "game." followed by rest
HasGamePrefix(path) ==
    Len(path) >= 5 /\ SubSeq(path, 1, 5) = <<"g", "a", "m", "e", ".">>

\* what follows the first five characters of path
AfterPrefix(path) == SubSeq(path, 6, Len(path))

\* the document updateGame(g, path, value) leaves when applied to the store as
\* it stands, the pending delta log aside
DocumentAfter(g, path, value) ==
    Without(updateGame(games, g, path, value, clock).games[g].state,
            "_pendingDeltas")

\* C23 as stated: for every path p, a successful updateGame(id, "game." + p, v)
\* leaves the document that updateGame(id, p, v) leaves when applied to the
\* same document (the pending delta log, which names the path as written,
\* aside).
C23_GamePrefixMeansNothing ==
    [][\A g \in DOMAIN games :
          (Succeeded("updateGame", g)
              /\ HasGamePrefix(result'.params.fieldSelector)) =>
             Without(games'[g].state, "_pendingDeltas") =
                DocumentAfter(g, AfterPrefix(result'.params.fieldSelector),
                              result'.params.value)]_vars

\* C23, amended: the same for every non-empty path p that does not itself
\* begin with "game.".
C23_GamePrefixStrippedOnce ==
    [][\A g \in DOMAIN games :
          (Succeeded("updateGame", g)
              /\ HasGamePrefix(result'.params.fieldSelector)
              /\ AfterPrefix(result'.params.fieldSelector) # <<>>
              /\ ~HasGamePrefix(AfterPrefix(result'.params.fieldSelector))) =>
             Without(games'[g].state, "_pendingDeltas") =
                DocumentAfter(g, AfterPrefix(result'.params.fieldSelector),
                              result'.params.value)]_vars

C23_WrittenThroughPrefix ==
    /\ "g1" \in DOMAIN games
    /\ result.tool = "updateGame" /\ result.error = NoError
    /\ result.params.fieldSelector = Chars("game.characters[0].hp")
    /\ result.params.value = Num(5)
    /\ getNestedValue(games["g1"].state, Chars("characters[0].hp")) = Num(5)
    /\ Prop(games["g1"].state, "game") = Undef

\* what the document doc holds at the first n of keys
AtPrefix(doc, keys, n) == readFrom(doc, SubSeq(keys, 1, n), 1)

\* C24: a successful updateGame creates a container under a token only where
\* the container it walks in lacks that token's key, an array where the next
\* token is all digits and an object otherwise; what a key already holds
\* keeps its kind, so that an object walked in with a numeral token stays an
\* object and holds the numeral as a key.
C24_CreatedOnlyWhereMissing ==
    [][\A g \in DOMAIN games :
          Succeeded("updateGame", g) =>
             LET keys == parsePath(StripGamePrefix(result'.params.fieldSelector))
                 old == DeepCopy(games[g].state)
                 new == games'[g].state
             IN  \A i \in 1..(Len(keys) - 1) :
                    LET current == AtPrefix(old, keys, i - 1)
                    IN  IsContainer(current) =>
                           /\ AtPrefix(new, keys, i - 1).t = current.t
                           /\ AtPrefix(new, keys, i).t =
                                  IF HasKey(current, keys[i])
                                  THEN AtPrefix(old, keys, i).t
                                  ELSE IF IsNumeral(keys[i + 1]) THEN "arr"
                                  ELSE "obj"]_vars

C24_NumeralKeyInObject ==
    /\ "g1" \in DOMAIN games
    /\ result.tool = "updateGame" /\ result.error = NoError
    /\ result.params.fieldSelector = Chars("story[0].b")
    /\ Prop(games["g1"].state, "story").t = "obj"
    /\ Prop(Prop(games["g1"].state, "story"), "progress") = Str("You are hit.")
    /\ Prop(Prop(games["g1"].state, "story"), "0") = Obj([b |-> Num(5)])

\* keys[k] is an index at or past the end of the array doc holds at the keys
\* before it
PastEnd(doc, keys, k) ==
    /\ AtPrefix(doc, keys, k - 1).t = "arr"
    /\ IsArrayIndex(keys[k])
    /\ ToNat(keys[k]) >= Len(AtPrefix(doc, keys, k - 1).v)

\* C25: an updateGame whose path has an index at or past the end of an
\* existing array, as its last token or as one walked through, does not fail
\* on that account, and leaves the array with the index as its last position
\* and null at every position skipped.
C25_GapsAreNull ==
    [][\A g \in DOMAIN games :
          (Called("updateGame") /\ result'.params.gameId = Str(g)) =>
             LET keys == parsePath(StripGamePrefix(result'.params.fieldSelector))
                 old == DeepCopy(games[g].state)
                 new == games'[g].state
             IN  \A k \in 1..Len(keys) :
                    PastEnd(old, keys, k) =>
                       LET was == AtPrefix(old, keys, k - 1).v
                           now == AtPrefix(new, keys, k - 1)
                       IN  /\ result'.error = NoError
                           /\ now.t = "arr"
                           /\ Len(now.v) = ToNat(keys[k]) + 1
                           /\ \A j \in (Len(was) + 1)..ToNat(keys[k]) :
                                  now.v[j] = Null]_vars

\* path has a subscript that begins with a minus sign
HasNegativeSubscript(path) ==
    \E i \in 1..(Len(path) - 1) : path[i] = "[" /\ path[i + 1] = "-"

\* what the document doc holds at path
ReadAt(doc, path) == AtPrefix(doc, parsePath(path), Len(parsePath(path)))

\* C26: an updateGame whose path has a negative subscript is rejected, or it
\* is accepted and the value it wrote is read back at that path after it and
\* after every later call on the game that does not write that path again.
C26_NegativeIndexKept ==
    [][\A g \in DOMAIN games :
          /\ (Succeeded("updateGame", g)
                 /\ HasNegativeSubscript(result'.params.fieldSelector)) =>
                ReadAt(games'[g].state, result'.params.fieldSelector) =
                   result'.params.value
          /\ (/\ ReadAt(games[g].state, Chars("characters[-1]")) # Undef
              /\ clock' = clock
              /\ ~(/\ Called("updateGame")
                   /\ result'.params.fieldSelector = Chars("characters[-1]"))) =>
                ReadAt(games'[g].state, Chars("characters[-1]")) =
                   ReadAt(games[g].state, Chars("characters[-1]"))]_vars

\* the tools that change a game
WritingTools == {"updateGame", "progressStory", "promptUserActions", "selectAction"}

\* C27: createdAt of a game never changes; every successful updateGame,
\* progressStory, promptUserActions and selectAction sets updatedAt to the
\* time of the call, which is not earlier than the value it had; and
\* createdAt <= updatedAt in every state.
C27_Timestamps ==
    [][\A g \in DOMAIN games' :
          /\ games'[g].createdAt <= games'[g].updatedAt
          /\ g \in DOMAIN games =>
                /\ games'[g].createdAt = games[g].createdAt
                /\ (\E tool \in WritingTools : Succeeded(tool, g)) =>
                      /\ games'[g].updatedAt = clock
                      /\ games'[g].updatedAt >= games[g].updatedAt]_vars

C27_UpdatedLater ==
    /\ "g1" \in DOMAIN games
    /\ result.tool = "selectAction" /\ result.error = NoError
    /\ games["g1"].createdAt = 0
    /\ games["g1"].updatedAt = MaxClock

\* the step the documented flow has after tool
NextInFlow(tool) ==
    CASE tool = "createGame" -> "progressStory"
      [] tool = "progressStory" -> "promptUserActions"
      [] tool = "promptUserActions" -> "none"
      [] tool = "selectAction" -> "updateGame"
      [] tool = "updateGame" -> "progressStory"

\* C28: every call of a caller that follows the hints from createGame on,
\* the selection arriving after each prompt, is accepted and answered with
\* the next step of the flow createGame, progressStory, promptUserActions,
\* selectAction, updateGame, progressStory, ...
C28_HintsFollowFlow ==
    [][\A tool \in WritingTools \cup {"createGame"} :
          Called(tool) => /\ result'.error = NoError
                          /\ result'.nextStep = NextInFlow(tool)]_vars

C28_SecondCycle ==
    /\ "g1" \in DOMAIN games
    /\ result.tool = "updateGame" /\ result.error = NoError
    /\ result.nextStep = "progressStory"
    /\ Len(History("g1")) = 2

\* C29: promptUserActions on a game in the store accepts a list of options
\* only when it has 2, 3 or 4 entries; with 1 entry or with 5 or more it is
\* rejected and the store stays as it was.
C29_TwoToFourOptions ==
    [][\A g \in DOMAIN games :
          (Called("promptUserActions") /\ result'.params.gameId = Str(g)
              /\ result'.params.options.t = "arr") =>
             IF Len(result'.params.options.v) \in 2..4
             THEN result'.error = NoError
             ELSE result'.error # NoError /\ games' = games]_vars

\* the failure kind the specification gives an error
KindOf(message) ==
    CASE message = NotFound -> "NotFound"
      [] message \in {Required, EmptyOptions} -> "ValidationError"
      [] message = NoSituation -> "StateError"
      [] OTHER -> "other"

\* C30: two failed calls of one tool whose failures are of different kinds
\* (unknown id, invalid argument, selectAction without narrative) are
\* answered with error responses that differ in more than the message text
\* and the time.
C30_KindsDistinguishable ==
    [][(/\ \E tool \in IdTools : Called(tool) /\ result.tool = tool
        /\ result.error # NoError /\ result'.error # NoError
        /\ KindOf(result.error) # "other" /\ KindOf(result'.error) # "other"
        /\ KindOf(result.error) # KindOf(result'.error)) =>
           \E field \in {"tool", "isError"} :
              errorResponse(result.tool, result.error, clock)[field] #
                 errorResponse(result'.tool, result'.error, clock)[field]]_vars

\* C31: a getGame that follows a successful promptUserActions on the same
\* game, no selection having answered it yet, names no next step, in the
\* first cycle and in every later one.
C31_GetWaitsAfterPrompt ==
    [][\A g \in DOMAIN games :
          (/\ Succeeded("getGame", g)
           /\ result.tool = "promptUserActions" /\ result.error = NoError
           /\ result.params.gameId = Str(g)) =>
             result'.nextStep = "none"]_vars

\* the selection of the entry is one of the options of the entry
SelectionAmongOptions(entry) ==
    LET options == Prop(entry, "options")
        index == Prop(entry, "selectedIndex")
    IN  /\ options.t = "arr" /\ index.t = "num"
        /\ index.v \in 0..(Len(options.v) - 1)
        /\ options.v[index.v + 1] = Prop(entry, "selectedOption")

\* C32: in every history entry selectedIndex is an index of the entry's
\* options and the option at that index is selectedOption, also where
\* choices are offered anew while the request of a click on the choices shown
\* before is under way.
C32_SelectionAmongOptions ==
    \A g \in DOMAIN games :
       \A i \in 1..Len(History(g)) : SelectionAmongOptions(History(g)[i])

\* C33: a selectAction that follows a successful selectAction on the same
\* game, no promptUserActions in between, adds no entry to the history: the
\* decision point is recorded once.
C33_OneEntryPerPrompt ==
    [][\A g \in DOMAIN games :
          (/\ Succeeded("selectAction", g)
           /\ result.tool = "selectAction" /\ result.error = NoError
           /\ result.params.gameId = Str(g)) =>
             Items(games'[g].state, "_gameHistory") = History(g)]_vars

\* what an entry records of its decision point
Decision(entry) ==
    <<Prop(entry, "situation"), Prop(entry, "options"),
      Prop(entry, "selectedOption"), Prop(entry, "selectedIndex")>>

\* the decision points of the history hist, oldest first
Decisions(hist) == [i \in 1..Len(hist) |-> Decision(hist[i])]

\* C34: progressStory and promptUserActions leave the situation, options,
\* selectedOption and selectedIndex of every history entry as recorded, and
\* selectAction leaves them so in every entry it does not evict: the history
\* after it is the old one, less at most its oldest entry, with at most one
\* entry added at the end.
C34_EntriesStayAsRecorded ==
    [][\A g \in DOMAIN games :
          LET old == Decisions(History(g))
              new == Decisions(Items(games'[g].state, "_gameHistory"))
          IN  /\ (Succeeded("progressStory", g) \/ Succeeded("promptUserActions", g))
                    => new = old
              /\ Succeeded("selectAction", g) =>
                    \E evicted \in 0..1 :
                       /\ evicted <= Len(old)
                       /\ Len(new) - (Len(old) - evicted) \in 0..1
                       /\ SubSeq(new, 1, Len(old) - evicted) =
                              SubSeq(old, 1 + evicted, Len(old))]_vars

C34_OldOptionsKept ==
    /\ "g1" \in DOMAIN games
    /\ result.tool = "promptUserActions" /\ result.error = NoError
    /\ result.params.options = OtherOptions
    /\ Len(History("g1")) = HistoryLimit
    /\ Len(recorded["g1"]) > HistoryLimit
    /\ \E i \in 1..Len(History("g1")) :
          Prop(History("g1")[i], "options") = TwoOptions

\* C35: the answer of a successful selectRestart reports as many decisions as
\* the history of the game holds entries at the call, and the call leaves
\* every game as it was.
C35_RestartCountsHistory ==
    [][\A g \in DOMAIN games :
          Succeeded("selectRestart", g) =>
             /\ result'.shown = <<DecisionsMade(Len(History(g)))>>
             /\ games' = games]_vars

\* the calls that name a game, selectRestart among them
NamesGame(r) == r.tool = "selectRestart" \/ (r.tool \in IdTools /\ WellFormed(r))

\* C36: deleteGame(id) returns true exactly when the store held a game under
\* id and leaves the store without that game and with every other game as it
\* was; a call that names an id the store does not hold, a deleted one among
\* them, fails with not-found and changes nothing.
C36_DeleteRemovesOne ==
    [][\A g \in RequestIds :
          /\ (Called("deleteGame") /\ result'.params.gameId = Str(g)) =>
                /\ result'.deleted = (g \in DOMAIN games)
                /\ DOMAIN games' = DOMAIN games \ {g}
                /\ \A h \in DOMAIN games' : games'[h] = games[h]
          /\ (/\ g \notin DOMAIN games
              /\ clock' = clock /\ NamesGame(result')
              /\ result'.params.gameId = Str(g)) =>
                result'.error = NotFound /\ games' = games]_vars

\* a game that had a decision recorded was deleted while another stayed, and
\* a progressStory under its id was refused
C36_DeletedNotFound ==
    /\ "g1" \notin DOMAIN games /\ "g2" \in DOMAIN games
    /\ Len(recorded["g1"]) > 0
    /\ result.tool = "progressStory" /\ result.params.gameId = Str("g1")
    /\ result.error = NotFound

\* the answer r is to an updateGame that ended the game
EndsGame(r) ==
    /\ r.tool = "updateGame" /\ r.error = NoError
    /\ ~Falsy(r.params.isGameOver) /\ ~Falsy(r.params.gameOverReason)

\* the tools that succeed on every game when their arguments are there
AlwaysServed == {"getGame", "progressStory", "promptUserActions", "selectRestart"}

\* C37: an updateGame with isGameOver and a gameOverReason leaves the store
\* as GameManager.updateGame with the same id, path and value leaves it, and
\* the call that follows it on the game is answered as on any game: getGame,
\* progressStory, promptUserActions and selectRestart succeed, selectAction
\* succeeds when the game holds a situation and options.
C37_GameOverStoresNothing ==
    [][\A g \in DOMAIN games :
          /\ (Succeeded("updateGame", g) /\ EndsGame(result')) =>
                games' = updateGame(games, g, result'.params.fieldSelector,
                                    result'.params.value, clock).games
          /\ (/\ EndsGame(result) /\ result.params.gameId = Str(g)
              /\ Called(result'.tool) /\ result'.params.gameId = Str(g)) =>
                /\ (result'.tool \in AlwaysServed /\ NamesGame(result')) =>
                      result'.error = NoError
                /\ (/\ result'.tool = "selectAction"
                    /\ HoldsSituation(games[g].state)
                    /\ ~Falsy(Prop(games[g].state, "_currentOptions"))) =>
                      result'.error = NoError]_vars

\* a choice was recorded after the update that ended the game wrote the 0
C37_PlayedOnAfterGameOver ==
    /\ "g1" \in DOMAIN games
    /\ getNestedValue(games["g1"].state, Chars("characters[0].hp")) = Num(0)
    /\ result.tool = "selectAction" /\ result.error = NoError
    /\ Len(History("g1")) = 1

====
